---- MODULE Spec2Model ----
(***************************************************************************)
(* A model of cwl2wdl/generators.py: the command synthesis of              *)
(* WdlTaskGenerator.__format_command and the step composition of           *)
(* WdlWorkflowGenerator.__format_steps / generate_wdl.                     *)
(*                                                                         *)
(* Python values are represented as follows.                               *)
(*   None / a value x        <<>> / <<x>>   (None, Some(x))                *)
(*   a str                   a TLA+ string, concatenated with \o           *)
(*   a type name             the sequence of its pieces, e.g.              *)
(*                           <<"Array[", "Rec", "]">>, so that             *)
(*                           str.replace and str.startswith are computed   *)
(*   a dotted name           the sequence of its components                *)
(*   a multi-line str        the sequence of its lines (str.split("\n"))   *)
(***************************************************************************)
EXTENDS Integers, Sequences, FiniteSets, TLC

VARIABLES
    task,                   \* the task descriptor held by a WdlTaskGenerator
    structs,                \* WdlTaskGenerator.structs (names of the StructDefinitions)
    pc,                     \* "ready" before __format_command, "done" after it has returned
    command_position,       \* local of __format_command
    command_parts,          \* local of __format_command
    cmd_order,              \* local of __format_command (1-based indices)
    ordered_command_parts,  \* local of __format_command, as it is when joined
    command_text,           \* the value __format_command returns
    workflow,               \* the workflow descriptor held by a WdlWorkflowGenerator
    task_ids,               \* WdlWorkflowGenerator.task_ids
    imported_wfs,           \* WdlWorkflowGenerator.imported_wfs
    prepped_tasks,          \* WdlWorkflowGenerator.prepped_tasks
    calls,                  \* number of generate_wdl calls made on the generator
    wdl                     \* what the last generate_wdl call put into its template

taskVars == <<task, structs, pc, command_position, command_parts, cmd_order,
              ordered_command_parts, command_text>>
wfVars == <<workflow, task_ids, imported_wfs, prepped_tasks, calls, wdl>>
vars == <<task, structs, pc, command_position, command_parts, cmd_order,
          ordered_command_parts, command_text,
          workflow, task_ids, imported_wfs, prepped_tasks, calls, wdl>>

----------------------------------------------------------------------------
(* Bounds of the model.                                                    *)

PosRange == 1
MaxArgs == 2
MaxInputs == 2
MaxReqs == 2
MaxSteps == 2
MaxSubs == 1
MaxCalls == 2

----------------------------------------------------------------------------
(* Python values.                                                          *)

None == <<>>
Some(x) == <<x>>

RECURSIVE Join(_, _)
\* sep.join(parts) for a list of str
Join(parts, sep) ==
    IF parts = <<>> THEN ""
    ELSE IF Len(parts) = 1 THEN parts[1]
    ELSE parts[1] \o sep \o Join(Tail(parts), sep)

\* s.replace(piece, "") on a type name
Replace(t, piece) == SelectSeq(t, LAMBDA x : x # piece)

\* the str a type name stands for
TypeString(t) == Join(t, "")

----------------------------------------------------------------------------
(* WdlTaskGenerator                                                        *)

\* a variant of is_struct that compares the type name as written
is_struct_unstripped(vtype, structNames) ==
    \E k \in 1..Len(structNames) : structNames[k] = TypeString(vtype)

\* _is_struct: strip "Array[" and "]" and look the name up among the structs
is_struct(vtype, structNames) ==
    LET stripped == TypeString(Replace(Replace(vtype, "Array["), "]"))
    IN  \E k \in 1..Len(structNames) : structNames[k] = stripped

\* a variant of the seed that carries no position
SeedPositionAbsent == None

\* the position the base command is entered with: command_position = [0]
SeedPosition == Some(0)

\* a variant of the argument template that always puts the space in
ArgumentTokenSpaced(arg) ==
    LET prefix == IF arg.prefix # None THEN arg.prefix[1] ELSE ""
        value  == IF arg.value # None THEN arg.value[1] ELSE ""
    IN  prefix \o " " \o value

\* the token of one Argument: arg_template % (prefix, value)
ArgumentToken(arg) ==
    LET spaced == arg.prefix # None /\ arg.separate
        prefix == IF arg.prefix # None THEN arg.prefix[1] ELSE ""
        value  == IF arg.value # None THEN arg.value[1] ELSE ""
    IN  prefix \o (IF spaced THEN " " ELSE "") \o value

\* a variant of the Boolean rule that looks at the default only
BooleanElidedByDefaultOnly(ci) ==
    /\ TypeString(ci.variable_type) = "Boolean"
    /\ ci.default = Some("False")

\* the two `continue`s taken by a Boolean input
BooleanElided(ci) ==
    /\ TypeString(ci.variable_type) = "Boolean"
    /\ \/ ci.default = Some("False")
       \/ ci.prefix = None

\* the token of a struct-typed input
StructToken(name) == "${write_struct(" \o name \o ")}"

\* the token of an input in the standard case
StandardToken(ci) ==
    LET sep     == IF ci.variable_type[1] = "Array["
                   THEN "sep='" \o ci.separator \o "' " ELSE ""
        default == IF ci.default # None
                   THEN "default='" \o ci.default[1] \o "' " ELSE ""
        name    == sep \o default \o ci.name
    IN  IF ci.prefix = None THEN "${" \o name \o "}"
        ELSE IF ci.is_required
             THEN ci.prefix[1] \o (IF ci.separate THEN " " ELSE "") \o "${" \o name \o "}"
             ELSE "${" \o ci.prefix[1] \o " + " \o name \o "}"

\* the first loop of __format_command, over command.arguments
ArgumentsLoop(arguments, acc) ==
    [position |-> acc.position \o [k \in 1..Len(arguments) |-> arguments[k].position],
     parts    |-> acc.parts \o [k \in 1..Len(arguments) |-> ArgumentToken(arguments[k])]]

\* one iteration of the second loop of __format_command
InputStep(ci, acc, stdout, structNames) ==
    IF BooleanElided(ci) THEN acc
    ELSE IF is_struct(ci.variable_type, structNames)
         THEN [position |-> Append(acc.position, ci.position),
               parts    |-> Append(acc.parts, StructToken(ci.name))]
    ELSE IF Some(ci.name) = stdout THEN acc
    ELSE [position |-> Append(acc.position, ci.position),
          parts    |-> Append(acc.parts, StandardToken(ci))]

RECURSIVE InputsLoop(_, _, _, _)
\* the second loop of __format_command, over command.inputs
InputsLoop(inputs, acc, stdout, structNames) ==
    IF inputs = <<>> THEN acc
    ELSE InputsLoop(Tail(inputs), InputStep(Head(inputs), acc, stdout, structNames),
                    stdout, structNames)

\* a variant of the sort key under which an absent position sorts first
KeyLessAbsentFirst(p, q) ==
    \/ p = None /\ q # None
    \/ p # None /\ q # None /\ p[1] < q[1]

\* (p is None, p) < (q is None, q)
KeyLess(p, q) ==
    \/ p # None /\ q = None
    \/ p # None /\ q # None /\ p[1] < q[1]

RECURSIVE InsertStable(_, _, _)
\* put index i behind every index of `order` whose key is not greater
InsertStable(i, order, position) ==
    IF order = <<>> THEN <<i>>
    ELSE IF KeyLess(position[i], position[Head(order)]) THEN <<i>> \o order
    ELSE <<Head(order)>> \o InsertStable(i, Tail(order), position)

RECURSIVE SortedIndices(_, _)
\* sorted(enumerate(command_position), key=...) restricted to the first n entries
SortedIndices(position, n) ==
    IF n = 0 THEN <<>>
    ELSE InsertStable(n, SortedIndices(position, n - 1), position)

\* a variant of the insertion that puts the token behind the others
InsertBack(parts, token) == Append(parts, token)

\* ordered_command_parts.insert(0, token)
InsertFront(parts, token) == <<token>> \o parts

\* the token of one envVar requirement
EnvVarToken(req) ==
    Join([k \in 1..Len(req.value) |->
            req.value[k][1] \o "='" \o req.value[k][2] \o "'"], " ")

RECURSIVE RequirementsLoop(_, _)
\* the loop of __format_command over self.requirements
RequirementsLoop(requirements, parts) ==
    IF requirements = <<>> THEN parts
    ELSE RequirementsLoop(Tail(requirements),
            IF Head(requirements).requirement_type = Some("envVar")
            THEN InsertFront(parts, EnvVarToken(Head(requirements)))
            ELSE parts)

\* the redirection appended when stdout is captured
StdoutToken(name) == "> ${" \o name \o "}"

\* the separator of the final join
LineContinuation == " \\\n        "

\* __format_command, with its locals as they are when it returns
format_command(t, structNames) ==
    LET seed     == [position |-> <<SeedPosition>>, parts |-> <<t.command.baseCommand>>]
        afterArg == ArgumentsLoop(t.command.arguments, seed)
        afterIn  == InputsLoop(t.command.inputs, afterArg, t.stdout, structNames)
        order    == SortedIndices(afterIn.position, Len(afterIn.position))
        ordered  == [k \in 1..Len(order) |-> afterIn.parts[order[k]]]
        withEnv  == RequirementsLoop(t.requirements, ordered)
        final    == IF t.stdout # None THEN Append(withEnv, StdoutToken(t.stdout[1]))
                    ELSE withEnv
    IN  [command_position      |-> afterIn.position,
         command_parts         |-> afterIn.parts,
         cmd_order             |-> order,
         ordered_command_parts |-> final,
         text                  |-> Join(final, LineContinuation)]

----------------------------------------------------------------------------
(* The task descriptors the command synthesis is run on.                   *)

BooleanT == <<"Boolean">>
FileT == <<"File">>
ArrayFileT == <<"Array[", "File", "]">>
RecT == <<"Rec">>
ArrayRecT == <<"Array[", "Rec", "]">>
NestedRecT == <<"Array[", "Array[", "Rec", "]", "]">>
Types == {BooleanT, FileT, ArrayFileT, RecT, ArrayRecT, NestedRecT}

Positions == {None} \cup {Some(p) : p \in (0 - PosRange)..PosRange}

\* names of the inputs, by their place in command.inputs
InputNames == <<"infile", "in2", "in3", "in4">>

Arguments ==
    [position : Positions, prefix : {None, Some("-a")}, separate : BOOLEAN,
     value : {None, Some("run")}]

CommandInputs ==
    [name : {"x", "out"}, variable_type : Types, position : Positions,
     prefix : {None, Some("-f")}, separate : BOOLEAN, is_required : BOOLEAN,
     default : {None, Some("False"), Some("d")}, separator : {","}]

PlainArgument(p) ==
    [position |-> p, prefix |-> None, separate |-> FALSE, value |-> Some("run")]

PlainInput(name, p) ==
    [name |-> name, variable_type |-> FileT, position |-> p, prefix |-> Some("-i"),
     separate |-> TRUE, is_required |-> TRUE, default |-> None, separator |-> ","]

EnvA == [requirement_type |-> Some("envVar"), value |-> << <<"A", "1">> >>]
EnvBC == [requirement_type |-> Some("envVar"), value |-> << <<"B", "2">>, <<"C", "3">> >>]
\* the payload of a requirement of another type is not read by __format_command
Docker == [requirement_type |-> Some("docker"), value |-> << <<"image", "ubuntu">> >>]
Untyped == [requirement_type |-> None, value |-> << <<"k", "v">> >>]
Requirements == {EnvA, EnvBC, Docker, Untyped}

SeqsUpTo(S, n) == UNION {[1..k -> S] : k \in 0..n}

Task(arguments, inputs, requirements, stdout) ==
    [name         |-> "t",
     command      |-> [baseCommand |-> "tool", arguments |-> arguments, inputs |-> inputs],
     requirements |-> requirements,
     stdout       |-> stdout]

\* any mix of positions over plain arguments and plain, uniquely named inputs
OrderingCase ==
    \E ap \in SeqsUpTo(Positions, MaxArgs), ip \in SeqsUpTo(Positions, MaxInputs),
       env \in {<<<<>>, None>>, <<<<EnvA>>, Some("out")>>} :
        /\ task = Task([k \in 1..Len(ap) |-> PlainArgument(ap[k])],
                       [k \in 1..Len(ip) |-> PlainInput(InputNames[k], ip[k])],
                       env[1], env[2])
        /\ structs = <<>>

\* every Argument, next to one plain input
ArgumentCase ==
    \E a \in Arguments :
        /\ task = Task(<<a>>, <<PlainInput(InputNames[1], Some(1))>>, <<>>, None)
        /\ structs = <<>>

\* every CommandInput at every place among plain inputs, with and without a
\* captured stdout and a declared struct
InputCase ==
    \E ci \in CommandInputs, n \in 1..MaxInputs, j \in 1..MaxInputs,
       out \in {None, Some("out")}, st \in {<<>>, <<"Rec">>} :
        /\ j <= n
        /\ task = Task(<<PlainArgument(Some(0))>>,
                       [k \in 1..n |-> IF k = j THEN ci
                                       ELSE PlainInput(InputNames[k], Some(0))],
                       <<>>, out)
        /\ structs = st

\* every requirement list, around a command whose base command is not first
RequirementCase ==
    \E rs \in SeqsUpTo(Requirements, MaxReqs), out \in {None, Some("out")} :
        /\ task = Task(<<PlainArgument(Some(0 - 1))>>,
                       <<PlainInput(InputNames[1], None)>>, rs, out)
        /\ structs = <<>>

\* a task whose steps a workflow generator renders
StepTask == Task(<<PlainArgument(Some(0))>>, <<PlainInput(InputNames[1], Some(1))>>, <<>>, None)

----------------------------------------------------------------------------
(* The command synthesis of one task.                                      *)

WfIdle ==
    /\ workflow = [steps |-> <<>>, subworkflows |-> <<>>, structs |-> <<>>]
    /\ task_ids = <<>>
    /\ imported_wfs = <<>>
    /\ prepped_tasks = <<>>
    /\ calls = 0
    /\ wdl = None

Init ==
    /\ OrderingCase \/ ArgumentCase \/ InputCase \/ RequirementCase
    /\ pc = "ready"
    /\ command_position = <<>>
    /\ command_parts = <<>>
    /\ cmd_order = <<>>
    /\ ordered_command_parts = <<>>
    /\ command_text = None
    /\ WfIdle

\* WdlTaskGenerator.__format_command
FormatCommand ==
    /\ pc = "ready"
    /\ LET r == format_command(task, structs)
       IN  /\ command_position' = r.command_position
           /\ command_parts' = r.command_parts
           /\ cmd_order' = r.cmd_order
           /\ ordered_command_parts' = r.ordered_command_parts
           /\ command_text' = Some(r.text)
    /\ pc' = "done"
    /\ UNCHANGED <<task, structs>>
    /\ UNCHANGED wfVars

Next == FormatCommand

Spec == Init /\ [][Next]_vars

----------------------------------------------------------------------------
(* WdlWorkflowGenerator                                                    *)

\* a + b for two multi-line strings
TextCat(a, b) == SubSeq(a, 1, Len(a) - 1) \o <<a[Len(a)] \o b[1]>> \o Tail(b)

RECURSIVE JoinText(_, _)
\* sep.join(texts) for multi-line strings
JoinText(texts, sep) ==
    IF texts = <<>> THEN <<"">>
    ELSE IF Len(texts) = 1 THEN texts[1]
    ELSE TextCat(TextCat(texts[1], sep), JoinText(Tail(texts), sep))

Newline == <<"", "">>

\* WdlTaskGenerator.generate_wdl: the task template around the synthesized command
TaskText(t, structNames) ==
    "task " \o t.name \o " { command { " \o format_command(t, structNames).text \o " } }"

\* the header line of the block that unpacks one prescatter entry
PrescatterHeader(base_rec) ==
    "scatter (" \o Join(base_rec, "_") \o "_item in " \o Join(base_rec, ".") \o ") {"

\* the alias line of one unpack request (new_name, orig_attr, vartype)
UnpackLine(base_rec, attr) ==
    "  " \o attr[3] \o " " \o attr[1] \o " = "
         \o Join(base_rec, "_") \o "_item." \o attr[2]

RECURSIVE format_prescatter(_)
\* _format_prescatter: one block per entry of the mapping, in its order
format_prescatter(prescatter) ==
    IF prescatter = <<>> THEN <<"">>
    ELSE LET base_rec == Head(prescatter)[1]
             attrs    == Head(prescatter)[2]
             unpack   == JoinText([k \in 1..Len(attrs) |-> <<UnpackLine(base_rec, attrs[k])>>],
                                  Newline)
             block    == TextCat(TextCat(<<"", PrescatterHeader(base_rec), "">>, unpack),
                                 <<"", "}", "">>)
         IN  TextCat(block, format_prescatter(Tail(prescatter)))

\* the header of a declared scatter block, up to its brace
ScatterHeader(scatter) ==
    TextCat(<<"", "    scatter (">>,
            JoinText([k \in 1..Len(scatter) |-> <<scatter[k][1] \o " in " \o scatter[k][2]>>],
                     <<"", "             ">>))

\* _format_scatter: wrap the body, indented, when the step declares a scatter
format_scatter(scatter, body) ==
    IF scatter # <<>>
    THEN LET parts == [k \in 1..Len(body) |-> "  " \o body[k]]
         IN  TextCat(TextCat(TextCat(ScatterHeader(scatter), <<") {", "">>), parts),
                     <<"", "    }", "">>)
    ELSE body

\* re.sub(step.task_id + "\.", "", inp.input_id) on a dotted name
Unqualified(task_id, input_id) ==
    IF Len(input_id) > Len(task_id) /\ SubSeq(input_id, 1, Len(task_id)) = task_id
    THEN SubSeq(input_id, Len(task_id) + 1, Len(input_id))
    ELSE input_id

\* the call of one step, with its input bindings
CallBlock(step) ==
    LET inputs == [i \in 1..Len(step.inputs) |->
                     <<(IF i > 1 THEN "          " ELSE "")
                        \o Join(Unqualified(step.task_id, step.inputs[i].input_id), ".")
                        \o "=" \o step.inputs[i].value>>]
    IN  TextCat(TextCat(<<"", "    call " \o Join(step.task_id, ".") \o " {", "        input: ">>,
                        JoinText(inputs, <<", ", "">>)),
                <<"", "    }", "">>)

\* the text __format_steps appends to `steps` for one step
StepText(step) ==
    IF step.inputs # <<>>
    THEN format_scatter(step.scatter, TextCat(format_prescatter(step.prescatter), CallBlock(step)))
    ELSE format_scatter(step.scatter, <<"call " \o Join(step.task_id, ".")>>)

\* the import of a sub-workflow step
ImportLine(step) ==
    LET base_task_id == step.task_id[Len(step.task_id)]
    IN  "import \"" \o base_task_id \o ".wdl\" as " \o base_task_id

RECURSIVE format_steps(_, _, _)
\* __format_steps over `todo`, from the accumulators and the texts in acc
format_steps(todo, acc, structNames) ==
    IF todo = <<>> THEN acc
    ELSE LET step == Head(todo)
             owns == step.task_definition # None
         IN  format_steps(Tail(todo),
                [task_ids      |-> Append(acc.task_ids, step.task_id),
                 prepped_tasks |-> IF owns /\ step.step_type = "task"
                                   THEN Append(acc.prepped_tasks,
                                               TaskText(step.task_definition[1], structNames))
                                   ELSE acc.prepped_tasks,
                 imported_wfs  |-> IF owns /\ step.step_type # "task"
                                   THEN Append(acc.imported_wfs, ImportLine(step))
                                   ELSE acc.imported_wfs,
                 steps         |-> Append(acc.steps, StepText(step))],
                structNames)

----------------------------------------------------------------------------
(* The workflows the composer is run on.                                   *)

Bindings(task_id) ==
    {<<>>,
     <<[input_id |-> task_id \o <<"a">>, value |-> "x"]>>,
     <<[input_id |-> task_id \o <<"a">>, value |-> "x"], [input_id |-> <<"b">>, value |-> "y"]>>}

Scatters == {<<>>, << <<"s", "names">> >>}

Prescatters == {<<>>, << << <<"wf", "recs">>, << <<"names", "name", "String">> >> >> >>}

Steps ==
    [task_id : {<<"t1">>}, step_type : {"task"}, task_definition : {None, Some(StepTask)},
     inputs : Bindings(<<"t1">>), scatter : Scatters, prescatter : Prescatters]

Subworkflows ==
    [task_id : {<<"wf", "sub">>}, step_type : {"workflow"},
     task_definition : {None, Some(StepTask)},
     inputs : {<<>>, <<[input_id |-> <<"wf", "sub", "a">>, value |-> "x"]>>},
     scatter : {<<>>}, prescatter : {<<>>}]

TaskIdle ==
    /\ task = StepTask
    /\ structs = <<>>
    /\ pc = "idle"
    /\ command_position = <<>>
    /\ command_parts = <<>>
    /\ cmd_order = <<>>
    /\ ordered_command_parts = <<>>
    /\ command_text = None

WfInit ==
    /\ \E st \in SeqsUpTo(Steps, MaxSteps), sw \in SeqsUpTo(Subworkflows, MaxSubs) :
          workflow = [steps |-> st, subworkflows |-> sw, structs |-> <<"Rec">>]
    /\ task_ids = <<>>
    /\ imported_wfs = <<>>
    /\ prepped_tasks = <<>>
    /\ calls = 0
    /\ wdl = None
    /\ TaskIdle

\* WdlWorkflowGenerator.generate_wdl
GenerateWdl ==
    /\ calls < MaxCalls
    /\ LET r == format_steps(workflow.steps \o workflow.subworkflows,
                             [task_ids |-> task_ids, prepped_tasks |-> prepped_tasks,
                              imported_wfs |-> imported_wfs, steps |-> <<>>],
                             workflow.structs)
       IN  /\ task_ids' = r.task_ids
           /\ prepped_tasks' = r.prepped_tasks
           /\ imported_wfs' = r.imported_wfs
           /\ wdl' = Some([imports    |-> r.imported_wfs,
                           step_texts |-> r.steps,
                           steps      |-> JoinText(r.steps, Newline),
                           tasks      |-> r.prepped_tasks])
    /\ calls' = calls + 1
    /\ UNCHANGED workflow
    /\ UNCHANGED taskVars

WfNext == GenerateWdl

WfSpec == WfInit /\ [][WfNext]_vars

----------------------------------------------------------------------------
(* Properties of the command synthesis.                                    *)

Done == pc = "done"

EnvVarRequirements ==
    SelectSeq(task.requirements, LAMBDA r : r.requirement_type = Some("envVar"))

\* the ordered command without the env-var tokens in front and the redirection behind
Core ==
    SubSeq(ordered_command_parts, Len(EnvVarRequirements) + 1,
           Len(ordered_command_parts) - (IF task.stdout # None THEN 1 ELSE 0))

Explicit(p) == p # None

\* the names of the inputs of the model
Names == {"x", "out"} \cup {InputNames[k] : k \in 1..Len(InputNames)}

\* for each name, every ordinary value placeholder an input of that name can be
\* rendered as
PlaceholderTable ==
    [n \in Names |-> {StandardToken([c EXCEPT !.name = n]) : c \in CommandInputs}]

Placeholders(name) == PlaceholderTable[name]

\* the tokens an input of this name can contribute
InlineTokens(name) == Placeholders(name) \cup {StructToken(name)}

NoTokenOf(name) ==
    LET tokens == InlineTokens(name)
    IN  /\ \A k \in 1..Len(command_parts) : command_parts[k] \notin tokens
        /\ \A k \in 1..Len(Core) : Core[k] \notin tokens

\* C1: in the synthesized command, without the env-var tokens and the redirection,
\* the tokens are the collected tokens, those with a position in non-decreasing
\* position order, those without a position behind them, and tokens of equal or
\* of no position in the order they were collected in.
C1_Ordering ==
    Done =>
        /\ Len(Core) = Len(command_parts)
        /\ Len(cmd_order) = Len(command_parts)
        /\ {cmd_order[k] : k \in 1..Len(cmd_order)} = 1..Len(command_parts)
        /\ \A k \in 1..Len(Core) : Core[k] = command_parts[cmd_order[k]]
        /\ \A k, l \in 1..Len(cmd_order) :
              k < l =>
                LET p == command_position[cmd_order[k]]
                    q == command_position[cmd_order[l]]
                IN  /\ Explicit(p) /\ Explicit(q) => p[1] <= q[1]
                    /\ ~Explicit(p) => ~Explicit(q)
                    /\ p = q => cmd_order[k] < cmd_order[l]

\* a command with a negative position, two tokens of one position, and a token
\* without a position collected before a token with one
C1_Witness ==
    /\ Done
    /\ \E i, j, k, l \in 1..Len(command_position) :
          /\ i < j /\ k < l /\ j # k /\ j # l
          /\ command_position[i] = None
          /\ command_position[j] = Some(0 - 1)
          /\ command_position[k] = Some(1)
          /\ command_position[l] = Some(1)

\* the redirection tokens of the names an input can have
Redirections == {StdoutToken(n) : n \in Names}

\* C2: the input named as stdout contributes no inline token, whatever its type
\* (a declared struct included), and the command ends with the redirection
\* token exactly when stdout is set.
C2_StdoutExclusion ==
    Done =>
        /\ \A j \in 1..Len(task.command.inputs) :
              Some(task.command.inputs[j].name) = task.stdout
                  => NoTokenOf(task.command.inputs[j].name)
        /\ task.stdout # None =>
              ordered_command_parts[Len(ordered_command_parts)] = StdoutToken(task.stdout[1])
        /\ task.stdout = None =>
              ordered_command_parts[Len(ordered_command_parts)] \notin Redirections

\* the type names that denote the struct Rec, as the claim reads them
DenotesRec(vtype) == vtype \in {RecT, ArrayRecT, NestedRecT}

RecDeclared == \E k \in 1..Len(structs) : structs[k] = "Rec"

\* C3: an input whose type, without its Array[...] wrapping, names a declared
\* struct is rendered as exactly the token ${write_struct(<name>)}, entered with
\* the input's own position, and never as an ordinary value placeholder,
\* whatever its prefix, separate flag, requiredness, default and separator.
C3_StructSubstitution ==
    Done =>
        \A j \in 1..Len(task.command.inputs) :
            LET ci == task.command.inputs[j]
            IN  DenotesRec(ci.variable_type) /\ RecDeclared =>
                  /\ Cardinality({k \in 1..Len(command_parts) :
                                    command_parts[k] = "${write_struct(" \o ci.name \o ")}"}) = 1
                  /\ \A k \in 1..Len(command_parts) :
                        command_parts[k] = "${write_struct(" \o ci.name \o ")}"
                            => command_position[k] = ci.position
                  /\ \E k \in 1..Len(Core) : Core[k] = "${write_struct(" \o ci.name \o ")}"
                  /\ LET ordinary == Placeholders(ci.name)
                     IN  \A k \in 1..Len(command_parts) : command_parts[k] \notin ordinary

\* an optional array-of-struct input with a prefix, a default and a position,
\* rendered as the serialization call
C3_Witness ==
    /\ Done
    /\ RecDeclared
    /\ \E j \in 1..Len(task.command.inputs) :
          LET ci == task.command.inputs[j]
          IN  /\ ci.variable_type = ArrayRecT
              /\ ci.prefix # None /\ ci.default # None /\ ~ci.is_required
              /\ ci.position = Some(1)
              /\ \E k \in 1..Len(Core) : Core[k] = "${write_struct(" \o ci.name \o ")}"

\* the Boolean inputs the claim says are left out
ElidedBoolean(ci) ==
    /\ ci.variable_type = BooleanT
    /\ ci.default = Some("False") \/ ci.prefix = None

\* C4: a Boolean input whose default is "False" or whose prefix is absent
\* contributes no token and no position entry, whatever its position,
\* requiredness and separate flag; a Boolean input with a prefix and another
\* default is rendered as the same input of a standard type is.
C4_BooleanElision ==
    Done =>
        /\ Len(command_position) = Len(command_parts)
        /\ Len(command_position) <=
              1 + Len(task.command.arguments)
                + Cardinality({j \in 1..Len(task.command.inputs) :
                                  ~ElidedBoolean(task.command.inputs[j])})
        /\ \A j \in 1..Len(task.command.inputs) :
              LET ci == task.command.inputs[j]
              IN  /\ ElidedBoolean(ci) => NoTokenOf(ci.name)
                  /\ ci.variable_type = BooleanT /\ ~ElidedBoolean(ci) =>
                        LET std == format_command(
                                     [task EXCEPT !.command.inputs[j].variable_type = FileT],
                                     structs)
                        IN  /\ command_position = std.command_position
                            /\ command_parts = std.command_parts
                            /\ ordered_command_parts = std.ordered_command_parts

\* a required Boolean input with a prefix, a position and the default "False",
\* left out, and one with another default, rendered
C4_Witness ==
    /\ Done
    /\ \E j \in 1..Len(task.command.inputs) :
          LET ci == task.command.inputs[j]
          IN  /\ ci.variable_type = BooleanT
              /\ ci.prefix # None /\ ci.default = Some("False")
              /\ ci.position = Some(0 - 1) /\ ci.is_required /\ ci.separate
              /\ Len(command_parts) = Len(task.command.inputs) + 1

NonNegative(p) == p = None \/ p[1] >= 0

\* the literal case: tool, Argument(0, no prefix, "run"), required File input
\* infile at position 1 with the separate prefix -i
LiteralCase ==
    /\ task.command.baseCommand = "tool"
    /\ Len(task.command.arguments) = 1
    /\ task.command.arguments[1].position = Some(0)
    /\ task.command.arguments[1].prefix = None
    /\ task.command.arguments[1].value = Some("run")
    /\ task.command.inputs =
          <<[name |-> "infile", variable_type |-> FileT, position |-> Some(1),
             prefix |-> Some("-i"), separate |-> TRUE, is_required |-> TRUE,
             default |-> None, separator |-> ","]>>
    /\ task.requirements = <<>>
    /\ task.stdout = None

\* C7: when no Argument or CommandInput position is negative and there is no
\* env-var requirement, the base command is the first token and the other tokens
\* follow in position order; the literal case yields tool, run, -i ${infile}
\* joined by the line continuation.
C7_BaseCommandLeads ==
    Done =>
        /\ (/\ \A k \in 1..Len(task.command.arguments) :
                  NonNegative(task.command.arguments[k].position)
            /\ \A k \in 1..Len(task.command.inputs) :
                  NonNegative(task.command.inputs[k].position)
            /\ EnvVarRequirements = <<>>)
           => /\ ordered_command_parts[1] = task.command.baseCommand
              /\ cmd_order[1] = 1
              /\ \A k \in 2..Len(cmd_order) : ordered_command_parts[k] = command_parts[cmd_order[k]]
              /\ \A k, l \in 2..Len(cmd_order) :
                    k < l =>
                      LET p == command_position[cmd_order[k]]
                          q == command_position[cmd_order[l]]
                      IN  /\ Explicit(p) /\ Explicit(q) => p[1] <= q[1]
                          /\ ~Explicit(p) => ~Explicit(q)
        /\ LiteralCase =>
              /\ ordered_command_parts = <<"tool", "run", "-i ${infile}">>
              /\ command_text = Some("tool \\\n        run \\\n        -i ${infile}")

\* the literal case, synthesized
C7_Witness == Done /\ LiteralCase /\ Len(ordered_command_parts) = 3

\* C9 as stated: the base command is entered into the list with an absent
\* position and so is ordered as a token without a position is.
C9_SeedAbsent ==
    Done =>
        /\ command_position[1] = None
        /\ \A k \in 1..Len(cmd_order) :
              Explicit(command_position[cmd_order[k]])
                  => \E l \in 1..Len(cmd_order) : k < l /\ cmd_order[l] = 1

\* C9 as amended: the base command is entered with the numeric position 0 and
\* is ordered as a token of position 0 collected first is: behind exactly the
\* tokens of negative position.
C9_SeedZero ==
    Done =>
        /\ command_position[1] = Some(0)
        /\ \E b \in 1..Len(cmd_order) :
              /\ cmd_order[b] = 1
              /\ \A k \in 1..Len(cmd_order) :
                    k < b <=> /\ Explicit(command_position[cmd_order[k]])
                              /\ command_position[cmd_order[k]][1] < 0

\* a command in which a token of negative position stands before the base command
C9_Witness ==
    /\ Done
    /\ cmd_order[1] # 1
    /\ command_position[cmd_order[1]] = Some(0 - 1)
    /\ \E k \in 1..Len(command_position) : command_position[k] = None

\* the env-var tokens of the requirements of the model, written out
EnvVarText(req) ==
    IF req.value = << <<"A", "1">> >> THEN "A='1'"
    ELSE IF req.value = << <<"B", "2">>, <<"C", "3">> >> THEN "B='2' C='3'"
    ELSE "?"

\* C10: each envVar requirement contributes one token, its name='value' pairs
\* joined by spaces; the env-var tokens stand in front of the ordered command in
\* the reverse of the order of their requirements, and other requirements
\* contribute nothing.
C10_EnvVarPrefix ==
    Done =>
        LET envs == EnvVarRequirements
            n    == Len(envs)
        IN  /\ Len(ordered_command_parts) =
                  n + Len(command_parts) + (IF task.stdout # None THEN 1 ELSE 0)
            /\ \A k \in 1..n : ordered_command_parts[k] = EnvVarText(envs[n + 1 - k])
            /\ \A k \in 1..Len(cmd_order) :
                  ordered_command_parts[n + k] = command_parts[cmd_order[k]]

\* two envVar requirements, the later one in front
C10_Witness ==
    /\ Done
    /\ task.requirements = <<EnvA, EnvBC>>
    /\ ordered_command_parts[1] = "B='2' C='3'"
    /\ ordered_command_parts[2] = "A='1'"

----------------------------------------------------------------------------
(* Properties of the step composition.                                     *)

Composed == wdl # None

AllSteps == workflow.steps \o workflow.subworkflows

\* the header line of the declared scatter block of a step
DeclaredHeader(scatter) ==
    "    scatter (" \o scatter[1][1] \o " in " \o scatter[1][2]
        \o (IF Len(scatter) = 1 THEN ") {" ELSE "")

\* C5: for a step with a prescatter mapping and a declared scatter, each unpack
\* block of its rendering stands before the header of the declared scatter block
\* and is not nested in the body of that block.
C5_ScatterOrdering ==
    Composed =>
        \A i \in 1..Len(AllSteps) :
            LET step == AllSteps[i]
                text == wdl[1].step_texts[i]
            IN  step.prescatter # <<>> /\ step.scatter # <<>> =>
                  \A e \in 1..Len(step.prescatter), k \in 1..Len(text) :
                      text[k] \in {ind \o PrescatterHeader(step.prescatter[e][1]) :
                                     ind \in {"", "  "}}
                        => /\ text[k] = PrescatterHeader(step.prescatter[e][1])
                           /\ \E b \in 1..Len(text) :
                                 k < b /\ text[b] = DeclaredHeader(step.scatter)

\* C6: after any number of generate_wdl calls the task ids, nested task texts
\* and imports used for the output are those of the last pass over
\* steps ++ subworkflows, one per qualifying step.
C6_PerInvocation ==
    Composed =>
        /\ task_ids = [i \in 1..Len(AllSteps) |-> AllSteps[i].task_id]
        /\ Len(wdl[1].tasks) =
              Cardinality({i \in 1..Len(AllSteps) :
                  AllSteps[i].task_definition # None /\ AllSteps[i].step_type = "task"})
        /\ Len(wdl[1].imports) =
              Cardinality({i \in 1..Len(AllSteps) :
                  AllSteps[i].task_definition # None /\ AllSteps[i].step_type # "task"})

\* the lines a call of the step begins with, bare or with bindings, at either depth
CallLines(step) ==
    {ind \o "call " \o Join(step.task_id, ".") : ind \in {"", "  "}}
        \cup {ind \o "    call " \o Join(step.task_id, ".") \o " {" : ind \in {"", "  "}}

\* C8: for every step, with or without input bindings, and every entry of its
\* prescatter mapping, the rendering of the step holds one block that iterates
\* <base>_item over the base expression, with one alias per unpack request,
\* before the call of the step.
C8_PrescatterEveryStep ==
    Composed =>
        \A i \in 1..Len(AllSteps) :
            LET step == AllSteps[i]
                text == wdl[1].step_texts[i]
            IN  \A e \in 1..Len(step.prescatter) :
                    LET base   == step.prescatter[e][1]
                        attrs  == step.prescatter[e][2]
                        header == {ind \o PrescatterHeader(base) : ind \in {"", "  "}}
                    IN  /\ Cardinality({k \in 1..Len(text) : text[k] \in header}) = 1
                        /\ \E k, c \in 1..Len(text) :
                              /\ text[k] \in header
                              /\ \A n \in 1..Len(attrs) :
                                    k + n <= Len(text)
                                    /\ text[k + n] \in {ind \o UnpackLine(base, attrs[n]) :
                                                          ind \in {"", "  "}}
                              /\ k + Len(attrs) < c
                              /\ text[c] \in CallLines(step)

====
